---- MODULE Spec2Model ----
(***************************************************************************)
(* Model of monitor.py: the stock classifier (check_shopify_json_          *)
(* availability, is_in_stock) and the polling loop around it (check_stock, *)
(* check_all_products, should_send_daily_report, send_daily_report and the *)
(* __main__ loop).                                                         *)
(*                                                                         *)
(* A page is a sequence of elements.  Text is a sequence of tokens, each   *)
(* token an indivisible run of characters ("Sold", " ", "true", a quoted   *)
(* JSON key, ...).  The regular expressions and substring tests of the     *)
(* source are evaluated token by token.                                    *)
(***************************************************************************)
EXTENDS Integers, Sequences, FiniteSets, TLC

VARIABLES
    html,             \* is_in_stock: the page passed in (bytes)
    keywords,         \* is_in_stock: the out_of_stock_keywords argument
    shopify,          \* is_in_stock: (is_shopify, is_available) of line 157
    result,           \* is_in_stock: what the call returned or raised
    env,              \* PRODUCTS / PRODUCT_URL / DAILY_REPORT_HOUR of the process
    clock,            \* the IST wall clock, in hours since day 0, 00:00
    now,              \* __main__: the clock value read at line 328
    last_report_date, \* __main__: the marker of line 324
    check_count,      \* __main__: the counter of line 325
    pc,               \* position of the modelled code
    cycle,            \* what check_all_products did in the current cycle
    digest,           \* what send_daily_report did in the current cycle
    reports,          \* clock values at which send_daily_report was invoked
    notified_before,  \* indices of targets notified in an earlier cycle
    crashed           \* an exception left the loop body

vars == <<html, keywords, shopify, result, env, clock, now, last_report_date,
          check_count, pc, cycle, digest, reports, notified_before, crashed>>

classifierVars == <<html, keywords, shopify, result>>
monitorVars == <<env, clock, now, last_report_date, check_count, cycle, digest,
                 reports, notified_before, crashed>>

----------------------------------------------------------------------------
(* Bounds of the exploration *)

MaxNodes == 2      \* elements per page in SpecClassify
MaxItems == 2      \* JSON items per page in SpecJson
MaxCycles == 2     \* iterations of the polling loop
MaxTicks == 2      \* hours the clock may advance during a run

----------------------------------------------------------------------------
(* Tokens *)

KeyAvailable == "\"available\""
KeyAvailableUpper == "\"AVAILABLE\""
KeyForSale == "\"availableForSale\""
KeyVariants == "\"variants\""
InvalidByte == "<0xFF>"
ReplacementChar == "<U+00FF>"
OpenTag == "<tag>"
CloseTag == "</tag>"

\* str.lower() on one token
LowerTable ==
    ("Sold" :> "sold") @@ ("Out" :> "out") @@ ("Buy" :> "buy") @@ ("Now" :> "now")
    @@ ("ADD" :> "add") @@ ("TO" :> "to") @@ ("CART" :> "cart") @@ ("TRUE" :> "true")
    @@ ("Coming" :> "coming") @@ ("Soon" :> "soon") @@ ("of" :> "of")
    @@ ("Stock" :> "stock") @@ ("Notify" :> "notify") @@ ("Me" :> "me")
    @@ ("Currently" :> "currently") @@ ("Unavailable" :> "unavailable")
    @@ (KeyAvailableUpper :> KeyAvailable)
    @@ (KeyForSale :> "\"availableforsale\"")

Lower(t) == IF t \in DOMAIN LowerTable THEN LowerTable[t] ELSE t

LowerSeq(s) == [i \in 1..Len(s) |-> Lower(s[i])]

\* \s of the regular expressions, and the characters str.strip() removes
IsSpace(t) == t \in {" ", "\n"}

RECURSIVE SkipSpace(_, _)
SkipSpace(s, i) ==
    IF i <= Len(s) /\ IsSpace(s[i]) THEN SkipSpace(s, i + 1) ELSE i

RECURSIVE Concat(_)
Concat(ss) == IF ss = <<>> THEN <<>> ELSE Head(ss) \o Concat(Tail(ss))

\* needle in haystack, for str
Contains(hay, needle) ==
    \E i \in 0..(Len(hay) - Len(needle)) :
        \A j \in 1..Len(needle) : hay[i + j] = needle[j]

----------------------------------------------------------------------------
(* check_shopify_json_availability *)

\* The key of patterns[n]
PatternKey(n) == IF n = 1 THEN KeyAvailable ELSE KeyForSale

\* FlagMatchEnd for the pattern without \s*
FlagMatchEnd_nospace(s, key, i) ==
    IF /\ i + 2 <= Len(s) /\ Lower(s[i]) = Lower(key) /\ s[i + 1] = ":"
       /\ Lower(s[i + 2]) \in {"true", "false"}
    THEN i + 3 ELSE 0

\* re.IGNORECASE match of  key \s* : \s* (true|false)  starting at i:
\* the position after the match, or 0 when there is none.
FlagMatchEnd(s, key, i) ==
    IF i <= Len(s) /\ Lower(s[i]) = Lower(key)
    THEN LET j == SkipSpace(s, i + 1) IN
         IF j <= Len(s) /\ s[j] = ":"
         THEN LET k == SkipSpace(s, j + 1) IN
              IF k <= Len(s) /\ Lower(s[k]) \in {"true", "false"} THEN k + 1 ELSE 0
         ELSE 0
    ELSE 0

\* re.findall(pattern, html, re.IGNORECASE): the captured groups, left to right
RECURSIVE FindAllFrom(_, _, _)
FindAllFrom(s, key, i) ==
    IF i > Len(s) THEN <<>>
    ELSE LET e == FlagMatchEnd(s, key, i) IN
         IF e # 0 THEN <<s[e - 1]>> \o FindAllFrom(s, key, e)
         ELSE FindAllFrom(s, key, i + 1)

FindAll(s, key) == FindAllFrom(s, key, 1)

\* AnyTrue that asks every match to be true
AnyTrue_all(matches) == \A i \in 1..Len(matches) : Lower(matches[i]) = "true"

\* 'true' in [m.lower() for m in matches]
AnyTrue(matches) == \E i \in 1..Len(matches) : Lower(matches[i]) = "true"

\* The loop over patterns (lines 110-118): the first pattern that has matches
\* decides.  detected = FALSE means the loop fell through.
RECURSIVE ScalarLoop(_, _)
ScalarLoop(s, n) ==
    IF n > 2 THEN [detected |-> FALSE, available |-> FALSE]
    ELSE LET matches == FindAll(s, PatternKey(n)) IN
         IF matches # <<>>
         THEN [detected |-> TRUE, available |-> AnyTrue(matches)]
         ELSE ScalarLoop(s, n + 1)

\* re.search(r'"variants"\s*:\s*\[(.*?)\]', html, re.DOTALL), tried at i:
\* [found, content]; the key is matched case-sensitively.
FirstClose(s, i) ==
    IF \E j \in i..Len(s) : s[j] = "]"
    THEN CHOOSE j \in i..Len(s) : s[j] = "]" /\ \A k \in i..(j - 1) : s[k] # "]"
    ELSE 0

VariantMatchAt(s, i) ==
    IF i <= Len(s) /\ s[i] = KeyVariants
    THEN LET j == SkipSpace(s, i + 1) IN
         IF j <= Len(s) /\ s[j] = ":"
         THEN LET k == SkipSpace(s, j + 1) IN
              IF k <= Len(s) /\ s[k] = "[" /\ FirstClose(s, k + 1) # 0
              THEN [found |-> TRUE, content |-> SubSeq(s, k + 1, FirstClose(s, k + 1) - 1)]
              ELSE [found |-> FALSE, content |-> <<>>]
         ELSE [found |-> FALSE, content |-> <<>>]
    ELSE [found |-> FALSE, content |-> <<>>]

RECURSIVE VariantSearchFrom(_, _)
VariantSearchStep(s, i, m) == IF m.found THEN m ELSE VariantSearchFrom(s, i + 1)

VariantSearchFrom(s, i) ==
    IF i > Len(s) THEN [found |-> FALSE, content |-> <<>>]
    ELSE VariantSearchStep(s, i, VariantMatchAt(s, i))

VariantSearch(s) == VariantSearchFrom(s, 1)

\* lines 124-130, m the match of line 123
VariantDecide(m) ==
    IF m.found
    THEN IF \/ Contains(m.content, <<KeyAvailable, ":", "true">>)
            \/ Contains(m.content, <<KeyAvailable, ":", " ", "true">>)
         THEN [detected |-> TRUE, available |-> TRUE]
         ELSE IF \/ Contains(m.content, <<KeyAvailable, ":", "false">>)
                 \/ Contains(m.content, <<KeyAvailable, ":", " ", "false">>)
         THEN [detected |-> TRUE, available |-> FALSE]
         ELSE [detected |-> FALSE, available |-> FALSE]
    ELSE [detected |-> FALSE, available |-> FALSE]

VariantFallback(s) == VariantDecide(VariantSearch(s))

\* scalar is what the loop over patterns returned, if it returned
ScalarOrVariant(scalar, s) == IF scalar.detected THEN scalar ELSE VariantFallback(s)

check_shopify_json_availability(s) == ScalarOrVariant(ScalarLoop(s, 1), s)

----------------------------------------------------------------------------
(* The page: bytes, the decoded string and the parsed tree *)

\* The bytes of a page: each element's markup around its text
ElementBytes(el) == <<OpenTag>> \o el.text \o <<CloseTag>>

RECURSIVE PageBytes(_)
PageBytes(page) ==
    IF page = <<>> THEN <<>> ELSE ElementBytes(Head(page)) \o PageBytes(Tail(page))

\* html.decode('utf-8', errors='ignore'): invalid bytes are dropped
Decode(bytes) == SelectSeq(bytes, LAMBDA t : t # InvalidByte)

\* BeautifulSoup(html, "html.parser"): the parser guesses an encoding, so an
\* invalid byte becomes some other character; a valueless attribute gets the
\* value "", an absent one reads as None.
NoneValue == "<None>"

ParseAttr(markup) ==
    CASE markup = "absent" -> NoneValue
      [] markup = "bare" -> ""
      [] OTHER -> "disabled"

ParseText(text) == [i \in 1..Len(text) |->
                       IF text[i] = InvalidByte THEN ReplacementChar ELSE text[i]]

BeautifulSoup(page) ==
    [i \in 1..Len(page) |->
        [name |-> page[i].tag,
         disabled |-> ParseAttr(page[i].dis),
         class |-> page[i].cls,
         string |-> ParseText(page[i].text)]]

\* str.strip()
RECURSIVE StripLeft(_)
StripLeft(s) == IF s # <<>> /\ IsSpace(Head(s)) THEN StripLeft(Tail(s)) ELSE s

RECURSIVE StripRight(_)
StripRight(s) ==
    IF s # <<>> /\ IsSpace(s[Len(s)]) THEN StripRight(SubSeq(s, 1, Len(s) - 1)) ELSE s

Strip(s) == StripRight(StripLeft(s))

\* soup.get_text(separator=" ", strip=True): the stripped, non-empty strings
\* joined by one space
RECURSIVE JoinStrings(_)
JoinStrings(strings) ==
    IF strings = <<>> THEN <<>>
    ELSE IF Strip(Head(strings)) = <<>> THEN JoinStrings(Tail(strings))
    ELSE LET rest == JoinStrings(Tail(strings)) IN
         IF rest = <<>> THEN Strip(Head(strings))
         ELSE Strip(Head(strings)) \o <<" ">> \o rest

get_text(soup) == JoinStrings([i \in 1..Len(soup) |-> soup[i].string])

\* tag.get_text(strip=True)
tag_text(tag) == Strip(tag.string)

----------------------------------------------------------------------------
(* is_in_stock *)

Word(w) == [isStr |-> TRUE, toks |-> w]

DEFAULT_OUT_OF_STOCK_KEYWORDS ==
    << Word(<<"Coming", " ", "Soon">>),
       Word(<<"Out", " ", "of", " ", "Stock">>),
       Word(<<"Sold", " ", "Out">>),
       Word(<<"Notify", " ", "Me">>),
       Word(<<"Currently", " ", "Unavailable">>) >>

AddToCartTexts ==
    { <<"add", " ", "to", " ", "cart">>, <<"buy", " ", "now">>,
      <<"add", " ", "to", " ", "bag">> }

\* KeywordIn without the two lower() calls
KeywordIn_cased(keyword, full_text) == Contains(full_text, keyword)

\* keyword.lower() in full_text.lower()
KeywordIn(keyword, full_text) == Contains(LowerSeq(full_text), LowerSeq(keyword))

\* The loop of lines 164-167: "found", "none", or "raise" when a keyword is
\* not a string (keyword.lower() fails)
RECURSIVE KeywordLoop(_, _, _)
KeywordLoop(full_text, kws, i) ==
    IF i > Len(kws) THEN "none"
    ELSE IF ~kws[i].isStr THEN "raise"
    ELSE IF KeywordIn(kws[i].toks, full_text) THEN "found"
    ELSE KeywordLoop(full_text, kws, i + 1)

\* IsAddToCart without strip=True
IsAddToCart_unstripped(tag) ==
    /\ tag.name \in {"button", "input", "a"}
    /\ LowerSeq(tag.string) \in AddToCartTexts

\* The lambda of lines 171-172
IsAddToCart(tag) ==
    /\ tag.name \in {"button", "input", "a"}
    /\ LowerSeq(tag_text(tag)) \in AddToCartTexts

\* soup.find(...): the index of the first such tag, 0 for None
Find(soup) ==
    IF \E i \in 1..Len(soup) : IsAddToCart(soup[i])
    THEN CHOOSE i \in 1..Len(soup) :
             IsAddToCart(soup[i]) /\ \A j \in 1..(i - 1) : ~IsAddToCart(soup[j])
    ELSE 0

\* Truth value of a str-or-None
Truthy(v) == v # NoneValue /\ v # ""

\* Line 177
IsDisabled(tag) ==
    Truthy(tag.disabled) \/ \E i \in 1..Len(tag.class) : tag.class[i] = "disabled"

Return(b) == [raised |-> FALSE, value |-> b]
Raise == [raised |-> TRUE, value |-> FALSE]

\* Lines 175-184, add_to_cart the index soup.find returned
ControlDecide(soup, add_to_cart) ==
    IF add_to_cart # 0
    THEN IF IsDisabled(soup[add_to_cart]) THEN Return(FALSE) ELSE Return(TRUE)
    ELSE Return(FALSE)

\* Lines 169-184
ControlTier(soup) == ControlDecide(soup, Find(soup))

\* Lines 164-184, k the outcome of the keyword loop
KeywordDecide(soup, k) ==
    IF k = "raise" THEN Raise
    ELSE IF k = "found" THEN Return(FALSE)
    ELSE ControlTier(soup)

\* Lines 162-184
KeywordTier(soup, kws) == KeywordDecide(soup, KeywordLoop(get_text(soup), kws, 1))

\* Lines 157-184, sh the pair (is_shopify, is_available)
TierOne(sh, soup, kws) ==
    IF sh.detected THEN Return(sh.available) ELSE KeywordTier(soup, kws)

is_in_stock(page, kwarg) ==
    TierOne(check_shopify_json_availability(Decode(PageBytes(page))),
            BeautifulSoup(page),
            IF kwarg.given THEN kwarg.list ELSE DEFAULT_OUT_OF_STOCK_KEYWORDS)

----------------------------------------------------------------------------
(* Configuration and the web *)

Div(text) == [tag |-> "div", dis |-> "absent", cls |-> <<>>, text |-> text]
Control(tag, dis, cls, text) == [tag |-> tag, dis |-> dis, cls |-> cls, text |-> text]

NoKeywords == [given |-> FALSE, list |-> <<>>]
Given(list) == [given |-> TRUE, list |-> list]

\* A keyword that is not a string, as JSON allows: [5]
NotAString == [isStr |-> FALSE, toks |-> <<>>]

\* get_products
get_products(e) ==
    IF e.PRODUCTS.json = "list" /\ Len(e.PRODUCTS.list) > 0 THEN e.PRODUCTS.list
    ELSE IF e.PRODUCT_URL # ""
    THEN << [name |-> "Product", url |-> e.PRODUCT_URL,
             keywords |-> Given(DEFAULT_OUT_OF_STOCK_KEYWORDS)] >>
    ELSE <<>>

\* Pages the monitored sites may serve
PageJsonTrue ==
    << Div(<<KeyAvailable, ":", "false", KeyAvailable, ":", "true">>),
       Div(<<"Sold", " ", "Out">>) >>
PageJsonFalse ==
    << Div(<<KeyAvailable, ":", "false">>),
       Control("button", "absent", <<>>, <<"Buy", " ", "Now">>) >>
PageSoldOut ==
    << Div(<<"Sold", " ", "Out">>),
       Control("button", "absent", <<>>, <<"Buy", " ", "Now">>) >>
PageBuyNow ==
    << Div(<<"x">>), Control("a", "absent", <<>>, <<"\n", "ADD", " ", "TO", " ", "CART", " ">>) >>

Pages == {PageJsonTrue, PageJsonFalse, PageSoldOut, PageBuyNow}

\* What requests.get may do: raise, answer with a non-2xx status, or answer 200
Responses ==
    {[kind |-> "error", page |-> <<>>], [kind |-> "status", page |-> PageJsonTrue]}
    \cup {[kind |-> "ok", page |-> p] : p \in Pages}

----------------------------------------------------------------------------
(* check_stock and check_all_products *)

\* Line 199
ProductKeywords(product) ==
    IF product.keywords.given THEN product.keywords.list ELSE DEFAULT_OUT_OF_STOCK_KEYWORDS

\* Lines 210-216, r what is_in_stock returned or raised, n the number of
\* send_telegram_message calls of the in-stock branch
AfterClassify(r, n) ==
    IF r.raised THEN [raised |-> TRUE, ret |-> FALSE, sent |-> 0]
    ELSE IF r.value THEN [raised |-> FALSE, ret |-> TRUE, sent |-> n]
    ELSE [raised |-> FALSE, ret |-> FALSE, sent |-> 0]

\* CheckStockTry that notifies a target only once per run
CheckStockTry_once(product, resp) ==
    IF resp.kind # "ok" THEN [raised |-> TRUE, ret |-> FALSE, sent |-> 0]
    ELSE AfterClassify(is_in_stock(resp.page, Given(ProductKeywords(product))),
                       IF product.name \in notified_before THEN 0 ELSE 1)

\* The try block of lines 206-216: what it returns, how often it calls
\* send_telegram_message, whether an exception left it
CheckStockTry(product, resp) ==
    IF resp.kind # "ok" THEN [raised |-> TRUE, ret |-> FALSE, sent |-> 0]
    ELSE AfterClassify(is_in_stock(resp.page, Given(ProductKeywords(product))), 1)

\* CheckStockExcept that lets the exception through
CheckStockExcept_reraise(t) ==
    [ret |-> t.ret, sent |-> t.sent, propagated |-> t.raised]

\* except Exception (lines 217-219): logged, the function returns False
CheckStockExcept(t) ==
    [ret |-> IF t.raised THEN FALSE ELSE t.ret, sent |-> t.sent, propagated |-> FALSE]

check_stock(product, resp) ==
    IF product.url = "" THEN [ret |-> FALSE, sent |-> 0, propagated |-> FALSE]
    ELSE CheckStockExcept(CheckStockTry(product, resp))

\* The loop of lines 234-236 from target i on; it ends early when an
\* exception leaves check_stock.
RECURSIVE CheckLoop(_, _, _)
CheckLoopStep(products, resps, i, c) ==
    << [name |-> products[i].name, resp |-> resps[i], ret |-> c.ret,
        sent |-> c.sent, propagated |-> c.propagated] >>
    \o (IF c.propagated THEN <<>> ELSE CheckLoop(products, resps, i + 1))

CheckLoop(products, resps, i) ==
    IF i > Len(products) THEN <<>>
    ELSE CheckLoopStep(products, resps, i, check_stock(products[i], resps[i]))

\* results[name] = check_stock(product): a later target of the same name
\* overwrites an earlier one
ResultsDict(entries) ==
    [n \in {entries[i].name : i \in {j \in 1..Len(entries) : ~entries[j].propagated}} |->
        LET last == CHOOSE i \in 1..Len(entries) :
                        /\ entries[i].name = n /\ ~entries[i].propagated
                        /\ \A j \in (i + 1)..Len(entries) :
                               entries[j].name # n \/ entries[j].propagated
        IN entries[last].ret]

CycleOf(entries) == [entries |-> entries, results |-> ResultsDict(entries), ran |-> TRUE]

check_all_products(e, resps) == CycleOf(CheckLoop(get_products(e), resps, 1))

NoCycle == [entries |-> <<>>, results |-> <<>>, ran |-> FALSE]

----------------------------------------------------------------------------
(* The daily report *)

HoursPerDay == 24

\* now.hour and now.strftime("%Y-%m-%d") of a clock value; "" is <<>>
Hour(c) == c % HoursPerDay
DateStr(c) == <<c \div HoursPerDay>>

should_send_daily_report(e, last, c) ==
    Hour(c) = e.DAILY_REPORT_HOUR /\ last # DateStr(c)

\* DigestStatus that falls back to the full classifier
DigestStatus_fallback(product, resp) ==
    IF product.url = "" \/ resp.kind = "error" THEN "Error checking"
    ELSE IF is_in_stock(resp.page, Given(DEFAULT_OUT_OF_STOCK_KEYWORDS)).value
    THEN "In Stock" ELSE "Out of Stock"

\* Lines 290-294, sh the pair (is_shopify, is_available)
StatusOf(sh) ==
    IF sh.detected
    THEN IF sh.available THEN "In Stock" ELSE "Out of Stock"
    ELSE "Unknown"

\* Lines 285-296 for one target
DigestStatus(product, resp) ==
    IF product.url = "" \/ resp.kind = "error" THEN "Error checking"
    ELSE StatusOf(check_shopify_json_availability(Decode(PageBytes(resp.page))))

send_daily_report(e, resps) ==
    LET products == get_products(e) IN
    [entries |-> [i \in 1..Len(products) |->
                     [name |-> products[i].name, resp |-> resps[i],
                      status |-> DigestStatus(products[i], resps[i])]],
     sent |-> products # <<>>]

NoDigest == [entries |-> <<>>, sent |-> FALSE]

----------------------------------------------------------------------------
(* Inputs of the classifier *)

SeqsUpTo(S, n) == UNION {[1..k -> S] : k \in 0..n}

\* Texts of plain elements
PlainTexts ==
    { <<>>,
      <<"Sold", " ", "Out">>, <<"Sold">>, <<"\n", "Out", " ">>,
      <<"x", "sold", " ", "out", "x">>,
      <<KeyAvailable, ":", "true">>, <<KeyAvailable, ":", "false">>,
      <<KeyAvailableUpper, " ", ":", "\n", "TRUE">>,
      <<KeyAvailable, ":", "null">>,
      <<KeyAvailable, InvalidByte, ":", "true">>,
      <<KeyForSale, ":", "true">> }

\* Texts of buttons and links
ControlTexts ==
    { <<"Buy", " ", "Now">>, <<"\n", "ADD", " ", "TO", " ", "CART", " ">>,
      <<"Buy", " ", "Now", "!">> }

\* disabled attribute and class attribute of a button or link
ControlMarks ==
    { <<"absent", <<>>>>, <<"bare", <<>>>>, <<"value", <<>>>>,
      <<"absent", <<"btn", "disabled">>>> }

HtmlNodes ==
    {Div(t) : t \in PlainTexts}
    \cup {Control("button", m[1], m[2], t) : m \in ControlMarks, t \in ControlTexts}
    \cup {Control("a", d, <<>>, <<"Buy", " ", "Now">>) : d \in {"absent", "value"}}
    \cup {Control("input", "absent", <<>>, <<>>)}

KeywordArgs ==
    { NoKeywords, Given(<<>>), Given(<<Word(<<"Now">>)>>) }

\* JSON fragments: a flag, bare or inside a variants array
Flags ==
    { <<KeyAvailable>> \o sep \o <<v>> :
        sep \in {<<":">>, <<":", " ">>, <<" ", ":", "\n">>}, v \in {"true", "false"} }
    \cup { <<KeyForSale>> \o sep \o <<v>> :
        sep \in {<<":">>, <<":", " ">>}, v \in {"true", "false"} }
    \cup { <<KeyAvailableUpper, ":", v>> : v \in {"true", "false"} }
    \cup {<<KeyAvailable, ":", "null">>}

JsonItems ==
    Flags
    \cup {<<KeyVariants, ":", "[">> \o f \o <<"]">> : f \in Flags}
    \cup {<<KeyVariants, " ", ":", "[", "]">>, <<KeyVariants, ":", "[">>, <<"]">>}

JsonPages == {<<Div(Concat(items))>> : items \in SeqsUpTo(JsonItems, MaxItems)}

----------------------------------------------------------------------------
(* Environments of the monitor *)

TargetA == [name |-> "A", url |-> "https://a", keywords |-> NoKeywords]
TargetB == [name |-> "B", url |-> "https://b", keywords |-> Given(<<NotAString>>)]
TargetC == [name |-> "C", url |-> "", keywords |-> NoKeywords]
TargetA2 == [name |-> "A", url |-> "https://a2", keywords |-> Given(<<>>)]

\* PRODUCTS that holds a list of targets
ListSettings ==
    { [json |-> "list", list |-> <<TargetA, TargetB>>],
      [json |-> "list", list |-> <<TargetB, TargetA>>],
      [json |-> "list", list |-> <<TargetC, TargetA>>],
      [json |-> "list", list |-> <<TargetA, TargetA2>>] }

\* PRODUCTS that holds no target: [], not JSON, or not set
EmptySettings ==
    { [json |-> "list", list |-> <<>>],
      [json |-> "malformed", list |-> <<>>],
      [json |-> "unset", list |-> <<>>] }

DefaultReportHour == 11

MonitorEnv(p, u) ==
    [PRODUCTS |-> p, PRODUCT_URL |-> u, DAILY_REPORT_HOUR |-> DefaultReportHour,
     start |-> DefaultReportHour - 1, web |-> Responses]

MonitorEnvs ==
    {MonitorEnv(p, "https://p") : p \in ListSettings}
    \cup {MonitorEnv(p, u) : p \in EmptySettings, u \in {"", "https://p"}}

ClockEnvs ==
    { [PRODUCTS |-> [json |-> "list", list |-> <<TargetA>>], PRODUCT_URL |-> "",
       DAILY_REPORT_HOUR |-> h, start |-> c,
       web |-> {[kind |-> "ok", page |-> PageJsonTrue]}] :
        h \in 0..(HoursPerDay - 1), c \in 0..(HoursPerDay - 1) }

IdleEnv ==
    [PRODUCTS |-> [json |-> "unset", list |-> <<>>], PRODUCT_URL |-> "",
     DAILY_REPORT_HOUR |-> DefaultReportHour, start |-> 0, web |-> {}]

----------------------------------------------------------------------------
(* The classifier called on a page *)

MonitorIdle ==
    /\ env = IdleEnv /\ clock = 0 /\ now = 0 /\ last_report_date = <<>>
    /\ check_count = 0 /\ cycle = NoCycle /\ digest = NoDigest
    /\ reports = <<>> /\ notified_before = {} /\ crashed = FALSE

InitClassify ==
    /\ html \in SeqsUpTo(HtmlNodes, MaxNodes)
    /\ keywords \in KeywordArgs
    /\ shopify = [detected |-> FALSE, available |-> FALSE]
    /\ result = Return(FALSE)
    /\ pc = "call"
    /\ MonitorIdle

InitJson ==
    /\ html \in JsonPages
    /\ keywords = NoKeywords
    /\ shopify = [detected |-> FALSE, available |-> FALSE]
    /\ result = Return(FALSE)
    /\ pc = "call"
    /\ MonitorIdle

Classify ==
    /\ pc = "call"
    /\ shopify' = check_shopify_json_availability(Decode(PageBytes(html)))
    /\ result' = is_in_stock(html, keywords)
    /\ pc' = "done"
    /\ UNCHANGED <<html, keywords>>
    /\ UNCHANGED monitorVars

NextClassify == Classify

SpecClassify == InitClassify /\ [][NextClassify]_vars
SpecJson == InitJson /\ [][NextClassify]_vars

----------------------------------------------------------------------------
(* The polling loop *)

ClassifierIdle ==
    /\ html = <<>> /\ keywords = NoKeywords
    /\ shopify = [detected |-> FALSE, available |-> FALSE]
    /\ result = Return(FALSE)

InitLoop ==
    /\ clock = env.start /\ now = env.start /\ last_report_date = <<>>
    /\ check_count = 0 /\ pc = "start"
    /\ cycle = NoCycle /\ digest = NoDigest
    /\ reports = <<>> /\ notified_before = {} /\ crashed = FALSE
    /\ ClassifierIdle

InitMonitor == env \in MonitorEnvs /\ InitLoop
InitClock == env \in ClockEnvs /\ InitLoop

NotifiedIn(c) == {c.entries[i].name : i \in {j \in 1..Len(c.entries) : c.entries[j].sent > 0}}

\* Lines 327-330
LoopStart ==
    /\ pc = "start" /\ ~crashed /\ check_count < MaxCycles
    /\ now' = clock
    /\ check_count' = check_count + 1
    /\ notified_before' = notified_before \cup NotifiedIn(cycle)
    /\ cycle' = NoCycle /\ digest' = NoDigest
    /\ pc' = "report"
    /\ UNCHANGED <<env, clock, last_report_date, reports, crashed>>
    /\ UNCHANGED classifierVars

\* Lines 333-335, the report is due
ReportDue ==
    /\ pc = "report"
    /\ should_send_daily_report(env, last_report_date, clock)
    /\ \E resps \in [1..Len(get_products(env)) -> env.web] :
           digest' = send_daily_report(env, resps)
    /\ reports' = Append(reports, clock)
    /\ last_report_date' = DateStr(now)
    /\ pc' = "check"
    /\ UNCHANGED <<env, clock, now, check_count, cycle, notified_before, crashed>>
    /\ UNCHANGED classifierVars

\* Line 333, the report is not due
ReportNotDue ==
    /\ pc = "report"
    /\ ~should_send_daily_report(env, last_report_date, clock)
    /\ pc' = "check"
    /\ UNCHANGED <<env, clock, now, last_report_date, check_count, cycle, digest,
                   reports, notified_before, crashed>>
    /\ UNCHANGED classifierVars

\* Line 338
CheckAll ==
    /\ pc = "check"
    /\ \E resps \in [1..Len(get_products(env)) -> env.web] :
           /\ cycle' = check_all_products(env, resps)
           /\ crashed' = \E i \in 1..Len(cycle'.entries) : cycle'.entries[i].propagated
    /\ digest' = NoDigest
    /\ pc' = "sleep"
    /\ UNCHANGED <<env, clock, now, last_report_date, check_count, reports,
                   notified_before>>
    /\ UNCHANGED classifierVars

\* Line 340
Sleep ==
    /\ pc = "sleep" /\ ~crashed
    /\ pc' = "start"
    /\ UNCHANGED <<env, clock, now, last_report_date, check_count, cycle, digest,
                   reports, notified_before, crashed>>
    /\ UNCHANGED classifierVars

\* Time passes
Tick ==
    /\ clock < env.start + MaxTicks
    /\ clock' = clock + 1
    /\ UNCHANGED <<env, now, last_report_date, check_count, pc, cycle, digest,
                   reports, notified_before, crashed>>
    /\ UNCHANGED classifierVars

NextLoop == LoopStart \/ ReportDue \/ ReportNotDue \/ CheckAll \/ Sleep \/ Tick

SpecMonitor == InitMonitor /\ [][NextLoop]_vars
SpecClock == InitClock /\ [][NextLoop]_vars

----------------------------------------------------------------------------
(* Notions the claims are stated in *)

\* The string of a page that tier 1 scans
Raw(page) == Decode(PageBytes(page))

AllSpace(s, a, b) == \A n \in a..b : IsSpace(s[n])

\* s holds the scalar flag  key : value  (value "true" or "false"),
\* case-insensitively, with optional whitespace around the colon
FlagOccurs(s, key, value) ==
    \E i \in 1..Len(s) : \E j \in (i + 1)..Len(s) : \E k \in (j + 1)..Len(s) :
        /\ Lower(s[i]) = Lower(key) /\ AllSpace(s, i + 1, j - 1)
        /\ s[j] = ":" /\ AllSpace(s, j + 1, k - 1)
        /\ Lower(s[k]) = value

HasFlag(s, key) == FlagOccurs(s, key, "true") \/ FlagOccurs(s, key, "false")

\* The keyword list is_in_stock works with
EffectiveKeywords == IF keywords.given THEN keywords.list ELSE DEFAULT_OUT_OF_STOCK_KEYWORDS

\* The visible text holds the keyword, compared case-insensitively
Visible(kw, text) ==
    \E off \in 0..(Len(text) - Len(kw)) :
        \A j \in 1..Len(kw) : Lower(text[off + j]) = Lower(kw[j])

KeywordVisible ==
    \E n \in 1..Len(EffectiveKeywords) :
        Visible(EffectiveKeywords[n].toks, get_text(BeautifulSoup(html)))

\* Element n of the page is a button, input or link whose trimmed,
\* case-folded text is one of the three add-to-cart texts
IsControl(n) ==
    /\ html[n].tag \in {"button", "input", "a"}
    /\ \E t \in AddToCartTexts :
           /\ Len(Strip(html[n].text)) = Len(t)
           /\ \A j \in 1..Len(t) : Lower(Strip(html[n].text)[j]) = t[j]

\* Element n carries a disabled attribute or the class disabled
MarkedDisabled(n) ==
    html[n].dis # "absent" \/ \E c \in 1..Len(html[n].cls) : html[n].cls[c] = "disabled"

FirstControl(n) == IsControl(n) /\ \A m \in 1..(n - 1) : ~IsControl(m)

----------------------------------------------------------------------------
(* Claims about the classifier *)

\* C1: when the page holds the scalar flag "available" with a boolean,
\* is_in_stock returns true exactly when one of these occurrences is true,
\* whatever the keyword list, the visible text and the controls are.
C1_AvailableFlagDecides ==
    (pc = "done" /\ HasFlag(Raw(html), KeyAvailable))
        => result = Return(FlagOccurs(Raw(html), KeyAvailable, "true"))

\* C1 witness: only "available":false occurrences, next to an enabled
\* add-to-cart control; the call returned false.
C1_Witness ==
    /\ pc = "done"
    /\ HasFlag(Raw(html), KeyAvailable)
    /\ ~FlagOccurs(Raw(html), KeyAvailable, "true")
    /\ \E n \in 1..Len(html) : IsControl(n) /\ ~MarkedDisabled(n)
    /\ result = Return(FALSE)

\* C2 as stated: when an occurrence under either key is true, tier 1 returns
\* (detected, available) = (true, true) and is_in_stock returns true.
C2_AnyKeyTrueWins ==
    (pc = "done" /\ \E key \in {KeyAvailable, KeyForSale} : FlagOccurs(Raw(html), key, "true"))
        => (shopify = [detected |-> TRUE, available |-> TRUE] /\ result = Return(TRUE))

\* C3: with no structured data and a keyword of the list in the visible text,
\* is_in_stock returns false, also next to an enabled add-to-cart control.
C3_KeywordBeatsControl ==
    (pc = "done" /\ ~shopify.detected /\ KeywordVisible) => result = Return(FALSE)

\* C3 witness: a keyword is visible and the page has an enabled control.
C3_Witness ==
    /\ pc = "done" /\ ~shopify.detected /\ KeywordVisible
    /\ \E n \in 1..Len(html) : FirstControl(n) /\ ~MarkedDisabled(n)
    /\ result = Return(FALSE)

\* C4 as stated: with no structured data and no keyword match, is_in_stock
\* returns false when the first add-to-cart control carries a disabled
\* attribute (of any value, or none) or the class disabled.
C4_DisabledControlIsOutOfStock ==
    (pc = "done" /\ ~shopify.detected /\ ~KeywordVisible
       /\ \E n \in 1..Len(html) : FirstControl(n) /\ MarkedDisabled(n))
        => result = Return(FALSE)

\* C5: with no structured data, no keyword match and no add-to-cart control
\* marked disabled, is_in_stock returns true exactly when the page has an
\* add-to-cart control.
C5_EnabledControlDecides ==
    (pc = "done" /\ ~shopify.detected /\ ~KeywordVisible
       /\ \A n \in 1..Len(html) : IsControl(n) => ~MarkedDisabled(n))
        => result = Return(\E n \in 1..Len(html) : IsControl(n))

\* C5 witness: such a page with a control whose text needs trimming and
\* case folding; the call returned true.
C5_Witness ==
    /\ pc = "done" /\ ~shopify.detected /\ ~KeywordVisible
    /\ \A n \in 1..Len(html) : IsControl(n) => ~MarkedDisabled(n)
    /\ \E n \in 1..Len(html) : IsControl(n) /\ html[n].text # Strip(html[n].text)
    /\ result = Return(TRUE)

\* The variants segment found by the search holds one of the four literals
VariantLiteral(s) ==
    /\ VariantSearch(s).found
    /\ \E lit \in { <<KeyAvailable, ":", "true">>, <<KeyAvailable, ":", " ", "true">>,
                    <<KeyAvailable, ":", "false">>, <<KeyAvailable, ":", " ", "false">> } :
           Contains(VariantSearch(s).content, lit)

\* What the scalar patterns alone give
ScalarOnly(s) ==
    IF HasFlag(s, KeyAvailable)
    THEN [detected |-> TRUE, available |-> FlagOccurs(s, KeyAvailable, "true")]
    ELSE IF HasFlag(s, KeyForSale)
    THEN [detected |-> TRUE, available |-> FlagOccurs(s, KeyForSale, "true")]
    ELSE [detected |-> FALSE, available |-> FALSE]

\* C10: the variants fallback never decides: a literal flag inside the
\* variants segment is already a match of the scalar "available" pattern, and
\* the result is the one the scalar patterns alone give.
C10_VariantFallbackIsDead ==
    pc = "done" =>
        /\ VariantLiteral(Raw(html)) => HasFlag(Raw(html), KeyAvailable)
        /\ shopify = ScalarOnly(Raw(html))

\* C10 witness: a variants segment with "available": false inside.
C10_Witness ==
    /\ pc = "done"
    /\ VariantSearch(Raw(html)).found
    /\ Contains(VariantSearch(Raw(html)).content, <<KeyAvailable, ":", " ", "false">>)
    /\ shopify = [detected |-> TRUE, available |-> FALSE]

----------------------------------------------------------------------------
(* Claims about the polling loop *)

Targets == get_products(env)

KeywordsOf(product) ==
    IF product.keywords.given THEN product.keywords.list ELSE DEFAULT_OUT_OF_STOCK_KEYWORDS

\* The page has a structured-data marker: a scalar flag under either key
HasMarkers(page) == HasFlag(Raw(page), KeyAvailable) \/ HasFlag(Raw(page), KeyForSale)

\* The report got content for entry i
DigestFetched(i) == Targets[i].url # "" /\ digest.entries[i].resp.kind # "error"

\* C6: in the daily report a target whose content has no structured-data
\* marker is "Unknown", whatever keywords and controls the content holds; a
\* target with markers is "In Stock" exactly when tier 1 reports available.
C6_DigestUsesTierOneOnly ==
    \A i \in 1..Len(digest.entries) :
        DigestFetched(i) =>
            LET page == digest.entries[i].resp.page IN
            digest.entries[i].status =
                IF ~HasMarkers(page) THEN "Unknown"
                ELSE IF check_shopify_json_availability(Raw(page)).available
                THEN "In Stock" ELSE "Out of Stock"

\* C6 witness: a report entry "Unknown" for content that is_in_stock, with the
\* target's keywords, classifies in stock.
C6_Witness ==
    \E i \in 1..Len(digest.entries) :
        /\ DigestFetched(i)
        /\ digest.entries[i].status = "Unknown"
        /\ is_in_stock(digest.entries[i].resp.page, Given(KeywordsOf(Targets[i])))
               = Return(TRUE)

\* The check of entry i failed: the fetch raised or answered non-2xx, or the
\* classifier raised
CheckFailed(i) ==
    /\ Targets[i].url # ""
    /\ \/ cycle.entries[i].resp.kind # "ok"
       \/ is_in_stock(cycle.entries[i].resp.page, Given(KeywordsOf(Targets[i]))).raised

\* Target i has a URL, its fetch succeeded and its content is in stock
InStock(i) ==
    /\ Targets[i].url # ""
    /\ cycle.entries[i].resp.kind = "ok"
    /\ is_in_stock(cycle.entries[i].resp.page, Given(KeywordsOf(Targets[i]))) = Return(TRUE)

\* C7: a failed check of one target is caught in check_stock: its result is
\* false, it is not notified, every target of the list is still checked in
\* the cycle, each with the result its own response gives, and no exception
\* leaves the cycle.
C7_FailureStaysInItsTarget ==
    /\ ~crashed
    /\ cycle.ran =>
        /\ Len(cycle.entries) = Len(Targets)
        /\ \A i \in 1..Len(cycle.entries) :
            /\ CheckFailed(i) => (cycle.entries[i].ret = FALSE /\ cycle.entries[i].sent = 0)
            /\ cycle.entries[i].ret = InStock(i)
        /\ \A i \in 1..Len(cycle.entries) :
            (\A j \in (i + 1)..Len(cycle.entries) : Targets[j].name # Targets[i].name)
                => cycle.results[Targets[i].name] = cycle.entries[i].ret

\* C7 witness: the first target's check failed and a later target was
\* checked and found in stock.
C7_Witness ==
    /\ cycle.ran /\ Len(cycle.entries) >= 2
    /\ CheckFailed(1)
    /\ cycle.entries[2].ret = TRUE
    /\ pc = "sleep"

\* C8: in every cycle the notifier is called exactly once for a target that
\* has a URL, fetched and classified in stock, also when the target was
\* notified in an earlier cycle; for any other target it is not called.
C8_NotifiesOnEveryInStockPoll ==
    cycle.ran =>
        \A i \in 1..Len(cycle.entries) :
            cycle.entries[i].sent = IF InStock(i) THEN 1 ELSE 0

\* C8 witness: a target notified in an earlier cycle is notified again.
C8_Witness ==
    /\ cycle.ran
    /\ \E i \in 1..Len(cycle.entries) :
           cycle.entries[i].name \in notified_before /\ cycle.entries[i].sent = 1

\* C9 as stated: send_daily_report is invoked at most once per IST date.
C9_OneReportPerDate ==
    \A i \in 1..Len(reports) : \A j \in (i + 1)..Len(reports) :
        DateStr(reports[i]) # DateStr(reports[j])

====
